---- MODULE Spec2Model ----
(***************************************************************************)
(* Model of the browser-side data layer of PortfolAI                       *)
(* (portfolai/core/static/home/js/watchlist.js): the localStorage TTL      *)
(* cache with its three caching accessors, and the watchlist store that    *)
(* is kept in step with the server through /api/watchlist/, with the       *)
(* migration of the watchlist of the earlier, local-only version; and the  *)
(* news feed of ui.js, which purges the news entries on a search.          *)
(*                                                                         *)
(* JavaScript is single threaded: a handler runs from one await to the     *)
(* next without interruption.  Every action below is one such run: the     *)
(* synchronous part of a call up to its first await, or the continuation   *)
(* of a call after the awaited response has arrived.                       *)
(***************************************************************************)
EXTENDS Integers, Sequences, FiniteSets, TLC

(***************************************************************************)
(* Bounds of the model.                                                    *)
(***************************************************************************)
MaxTicks == 3        \* the clock runs from 0 to MaxTicks * TickMs
TickMs == 100000     \* one step of the clock, in milliseconds
MaxCalls == 2        \* accessor calls the page starts in one behaviour
MaxInFlight == 2     \* accessor calls awaiting their response at once
MaxWatchCalls == 2   \* watchlist operations the page starts in one behaviour
MaxWatchInFlight == 2  \* watchlist requests awaiting their response at once

Symbols == {"AAPL", "TSLA"}
NoSymbol == "null"                 \* fetchNews(symbol = null)
NewsArgs == Symbols \cup {NoSymbol}

(***************************************************************************)
(* CACHE_DURATIONS, in milliseconds.                                       *)
(***************************************************************************)
CACHE_DURATIONS_stockData == 60000
CACHE_DURATIONS_marketMovers == 120000
CACHE_DURATIONS_news == 300000
CACHE_DURATIONS_analysis == 600000
DefaultDuration == 60000

VARIABLES
  now,        \* Date.now()
  storage,    \* localStorage, restricted to the cache keys
  calls,      \* accessor calls suspended at `await fetch(...)`
  started,    \* number of accessor calls started so far
  ret,        \* how the accessor call that completed in the last step ended
  watchlist,  \* the module's `watchlist` array
  serverList, \* the watchlist the backend keeps for the user
  authenticated,  \* whether the session is logged in
  wcalls,     \* watchlist calls suspended at `await fetch(...)`
  wstarted,   \* number of watchlist operations started so far
  wret,       \* how the watchlist call that completed in the last step ended
  loaded,     \* whether loadWatchlist has fetched the list (Unloaded/Loaded)
  legacy,     \* the list stored under localStorage key 'stockWatchlist'
  mig,        \* the running migrateLocalStorageWatchlist call and its record
  health,     \* whether localStorage can be read and written
  lastSet,    \* per key, the last setCachedData(key, data) call
  probe,      \* two accessor calls and the cache keys they build
  search,     \* the search field, the stock details shown and the search error
  suggest,    \* the autocomplete of the search field: its timer and requests
  chat        \* the chat widget: isWaiting and its request

cacheVars == <<now, storage, calls, started, ret>>
watchVars == <<watchlist, serverList, authenticated, wcalls, wstarted, wret, loaded,
              legacy, mig>>
pageVars == <<search, suggest, chat>>
envVars == <<health, lastSet, probe, pageVars>>
vars == <<now, storage, calls, started, ret,
          watchlist, serverList, authenticated, wcalls, wstarted, wret, loaded,
          legacy, mig, health, lastSet, probe, search, suggest, chat>>

(***************************************************************************)
(* Values.  A payload is the JSON object of a response body; it records    *)
(* the URL it answers and the time v at which the backend produced it      *)
(* (market data changes with time, so responses produced at different      *)
(* times are different objects).                                           *)
(***************************************************************************)
NullData == [url |-> "null", v |-> 0, error |-> ""]          \* JavaScript null
Undefined == [url |-> "undefined", v |-> 0, error |-> ""]    \* JavaScript undefined
Truthy(d) == d # NullData /\ d # Undefined

\* a body without an error field, and the body {"error": msg}
Payload(url, v) == [url |-> url, v |-> v, error |-> ""]
ErrorBody(url, msg) == [url |-> url, v |-> 0, error |-> msg]
BackendErrors == {"No data found"}

StockUrl(symbol) == "/api/stock-data/?symbol=" \o symbol
MoversUrl == "/api/market-movers/"
NewsUrl(symbol) ==
  IF symbol # NoSymbol /\ symbol # "" THEN "/api/news/?symbol=" \o symbol ELSE "/api/news/"

(***************************************************************************)
(* Cache keys, as the accessors build them.                                *)
(***************************************************************************)
StockKey(symbol) == "stock_" \o symbol
MoversKey == "marketMovers"
\* mutant: the news key does not depend on the symbol
NewsKeyShared(symbol) == "news_general"

NewsKey(symbol) ==
  "news_" \o (IF symbol # NoSymbol /\ symbol # "" THEN symbol ELSE "general")

CacheKeys ==
  {StockKey(s) : s \in Symbols} \cup {MoversKey} \cup {NewsKey(s) : s \in NewsArgs}

StartsWith(str, prefix) ==
  Len(str) >= Len(prefix) /\ SubSeq(str, 1, Len(prefix)) = prefix

(***************************************************************************)
(* localStorage values.  getItem gives null for a missing key; a stored    *)
(* string is the JSON text of {data, timestamp} (kind "json"; data is      *)
(* Undefined when the text has no data field), the JSON text of an object  *)
(* without a timestamp field (kind "object") or no JSON text at all (kind  *)
(* "garbage"; JSON.parse throws).                                          *)
(***************************************************************************)
Null == [kind |-> "null", data |-> NullData, timestamp |-> 0]
JSONstringify(entry) ==
  [kind |-> "json", data |-> entry.data, timestamp |-> entry.timestamp]
ParseOk(str) == str.kind \in {"json", "object"}
JSONparse(str) == [data |-> str.data, timestamp |-> str.timestamp]
\* whether the destructured timestamp is a number: with an undefined
\* timestamp `now - timestamp` is NaN and every comparison with it is false
HasTimestamp(str) == str.kind = "json"

\* values a stored string can have that no setCachedData call wrote
Garbage == [kind |-> "garbage", data |-> NullData, timestamp |-> 0]       \* 'abc'
EmptyObject == [kind |-> "object", data |-> Undefined, timestamp |-> 0]   \* '{}'
TimestampOnly == [kind |-> "json", data |-> Undefined, timestamp |-> 0]   \* '{"timestamp":0}'
CorruptValues == {Garbage, EmptyObject, TimestampOnly}

\* localStorage itself: "ok", "full" (setItem throws QuotaExceededError) or
\* "disabled" (every access throws SecurityError)
Readable(h) == h # "disabled"
Writable(h) == h = "ok"
StorageError == "SecurityError"

RemoveItem(store, key) == [store EXCEPT ![key] = Null]
SetItem(store, key, str) == [store EXCEPT ![key] = str]

(***************************************************************************)
(* What `await fetch(url)` can give: a rejection (network error), a        *)
(* response with a non-2xx status, or a 2xx response whose body is either  *)
(* {"error": msg} or a payload.                                            *)
(***************************************************************************)
NetworkError == [rejected |-> TRUE, ok |-> FALSE, status |-> 0, body |-> NullData]
HttpError(st) == [rejected |-> FALSE, ok |-> FALSE, status |-> st, body |-> NullData]
HttpOk(body) == [rejected |-> FALSE, ok |-> TRUE, status |-> 200, body |-> body]

Responses(url, t) ==
  {NetworkError, HttpError(500), HttpOk(Payload(url, t))}
    \cup {HttpOk(ErrorBody(url, m)) : m \in BackendErrors}

(***************************************************************************)
(* The try block of an accessor after `await fetch`: the error it throws,  *)
(* if any, and the data it goes on with.                                   *)
(***************************************************************************)
\* mutant: an error body is reported with a generic message
RemoteResultGeneric(resp) ==
  IF resp.rejected
    THEN [threw |-> TRUE, message |-> "Failed to fetch", data |-> NullData]
  ELSE IF ~resp.ok \/ resp.body.error # ""
    THEN [threw |-> TRUE,
          message |-> "HTTP error! status: " \o ToString(resp.status),
          data |-> NullData]
  ELSE [threw |-> FALSE, message |-> "", data |-> resp.body]

\* mutant: the body is not checked for an error field
RemoteResultUnchecked(resp) ==
  IF resp.rejected
    THEN [threw |-> TRUE, message |-> "Failed to fetch", data |-> NullData]
  ELSE IF ~resp.ok
    THEN [threw |-> TRUE,
          message |-> "HTTP error! status: " \o ToString(resp.status),
          data |-> NullData]
  ELSE [threw |-> FALSE, message |-> "", data |-> resp.body]

RemoteResult(resp) ==
  IF resp.rejected
    THEN [threw |-> TRUE, message |-> "Failed to fetch", data |-> NullData]
  ELSE IF ~resp.ok
    THEN [threw |-> TRUE,
          message |-> "HTTP error! status: " \o ToString(resp.status),
          data |-> NullData]
  ELSE IF resp.body.error # ""
    THEN [threw |-> TRUE, message |-> resp.body.error, data |-> NullData]
  ELSE [threw |-> FALSE, message |-> "", data |-> resp.body]

(***************************************************************************)
(* getCachedData(key) and setCachedData(key, data).  getCachedData removes *)
(* an expired entry, so it gives the value it returns and the storage it   *)
(* leaves.                                                                 *)
(***************************************************************************)
\* mutant: every key gets the default duration
InferDurationDefault(key) == DefaultDuration

\* mutant: a key of no category gets the duration of the analysis category
InferDurationAnalysis(key) ==
  IF StartsWith(key, "stock_") THEN CACHE_DURATIONS_stockData
  ELSE IF key = "marketMovers" THEN CACHE_DURATIONS_marketMovers
  ELSE IF StartsWith(key, "news_") THEN CACHE_DURATIONS_news
  ELSE CACHE_DURATIONS_analysis

InferDuration(key) ==
  IF StartsWith(key, "stock_") THEN CACHE_DURATIONS_stockData
  ELSE IF key = "marketMovers" THEN CACHE_DURATIONS_marketMovers
  ELSE IF StartsWith(key, "news_") THEN CACHE_DURATIONS_news
  ELSE DefaultDuration

\* mutant: the comparison is the wrong way round
CacheValidInverted(t, timestamp, cacheDuration) == t - timestamp > cacheDuration

CacheValid(t, timestamp, cacheDuration) == t - timestamp < cacheDuration

GetCachedData(store, key, t) ==
  LET cached == store[key] IN
  IF cached = Null THEN [value |-> NullData, store |-> store]
  ELSE IF ~ParseOk(cached) THEN [value |-> NullData, store |-> store]
  ELSE LET e == JSONparse(cached) IN
       IF HasTimestamp(cached) /\ CacheValid(t, e.timestamp, InferDuration(key))
         THEN [value |-> e.data, store |-> store]
         ELSE [value |-> NullData, store |-> RemoveItem(store, key)]

\* getCachedData with its try/catch: a read that throws gives null
TryGetCachedData(h, store, key, t) ==
  IF Readable(h) THEN GetCachedData(store, key, t)
  ELSE [value |-> NullData, store |-> store]

\* mutant: an existing entry keeps its timestamp (merge instead of overwrite)
SetCachedDataKeep(store, key, data, t) ==
  SetItem(store, key,
    JSONstringify([data |-> data,
                   timestamp |-> IF store[key] = Null THEN t
                                 ELSE store[key].timestamp]))

\* mutant: a category keeps one entry: a write drops the entries of the
\* other keys that start as the key does
SetCachedDataSingle(store, key, data, t) ==
  [k \in DOMAIN store |->
     IF k = key THEN JSONstringify([data |-> data, timestamp |-> t])
     ELSE IF SubSeq(k, 1, 5) = SubSeq(key, 1, 5) THEN Null
     ELSE store[k]]

\* mutant: the stamp counts the time left instead of the time passed
SetCachedDataCountdown(store, key, data, t) ==
  SetItem(store, key,
    JSONstringify([data |-> data, timestamp |-> MaxTicks * TickMs - t]))

SetCachedData(store, key, data, t) ==
  SetItem(store, key, JSONstringify([data |-> data, timestamp |-> t]))

\* setCachedData with its try/catch: a write that throws is dropped
TrySetCachedData(h, store, key, data, t) ==
  IF Writable(h) THEN SetCachedData(store, key, data, t) ELSE store

(***************************************************************************)
(* The bookkeeping of calls.  A call suspended at its await sits in a slot *)
(* of `calls` with the stored value `pre` it found when it started and     *)
(* whether that was an entry younger than the TTL of its category (fresh); *)
(* `ret` records how the call that completed in the last step              *)
(* ended (from the warm cache, from the network, from the fallback, or by  *)
(* throwing) and is NoRet after a step that completes no call.             *)
(***************************************************************************)
\* the TTL table of the specification: 1 minute for quotes, 2 minutes for
\* market movers, 5 minutes for news
CategoryTTL(key) ==
  IF key = "marketMovers" THEN 2 * 60000
  ELSE IF SubSeq(key, 1, 5) = "news_" THEN 5 * 60000
  ELSE 60000
WithinTTL(key, str, t) ==
  str.kind = "json" /\ t - str.timestamp < CategoryTTL(key)

Idle == [op |-> "idle", symbol |-> "", force |-> FALSE, key |-> "", url |-> "",
         pre |-> Null, fresh |-> FALSE, requests |-> 0]
Slots == 1..MaxInFlight
FreeSlots == {i \in Slots : calls[i] = Idle}
HasFree == FreeSlots # {}
FirstFree == CHOOSE i \in FreeSlots : \A j \in FreeSlots : i <= j

NoResponse == [rejected |-> FALSE, ok |-> FALSE, status |-> 0, body |-> NullData]
NoRet == [op |-> "none", key |-> "", url |-> "", force |-> FALSE, how |-> "none",
          value |-> NullData, message |-> "", pre |-> Null,
          fresh |-> FALSE, found |-> Null, requests |-> 0, resp |-> NoResponse,
          purged |-> {}]

\* the record of a call that found `store` and returned `data` without
\* having awaited anything
Cached(store, op, key, url, force, data) ==
  [op |-> op, key |-> key, url |-> url, force |-> force, how |-> "cache",
   value |-> data, message |-> "", pre |-> store[key],
   fresh |-> WithinTTL(key, store[key], now), found |-> store[key],
   requests |-> 0, resp |-> NoResponse, purged |-> {}]
ReturnCached(op, key, url, force, data) ==
  ret' = Cached(storage, op, key, url, force, data)

\* the call throws before it has awaited anything
ThrowAtOnce(op, key, url, force, message) ==
  ret' = [op |-> op, key |-> key, url |-> url, force |-> force, how |-> "error",
          value |-> NullData, message |-> message, pre |-> storage[key],
          fresh |-> WithinTTL(key, storage[key], now), found |-> storage[key],
          requests |-> 0, resp |-> NoResponse, purged |-> {}]

\* the record of a call that found `store`, issued its request (the first of
\* the call) and suspended
Suspended(store, op, symbol, force, key, url) ==
  [op |-> op, symbol |-> symbol, force |-> force, key |-> key,
   url |-> url, pre |-> store[key], fresh |-> WithinTTL(key, store[key], now),
   requests |-> 1]
\* mutant: a call joins the request of a call of the same key in flight
SuspendCoalesced(op, symbol, force, key, url) ==
  IF \E j \in Slots : calls[j].op = op /\ calls[j].key = key
    THEN /\ calls' = calls
         /\ ret' = NoRet
    ELSE /\ HasFree
         /\ calls' = [calls EXCEPT ![FirstFree] =
                        Suspended(storage, op, symbol, force, key, url)]
         /\ ret' = NoRet

Suspend(op, symbol, force, key, url) ==
  /\ HasFree
  /\ calls' = [calls EXCEPT ![FirstFree] =
                 Suspended(storage, op, symbol, force, key, url)]
  /\ ret' = NoRet

\* the suspended call c, answered resp, ends: `how` is "network", "fallback"
\* or "error"
Settle(c, resp, how, data, message) ==
  ret' = [op |-> c.op, key |-> c.key, url |-> c.url, force |-> c.force, how |-> how,
          value |-> data, message |-> message, pre |-> c.pre,
          fresh |-> c.fresh, found |-> storage[c.key], requests |-> c.requests,
          resp |-> resp,
          purged |-> {}]

(***************************************************************************)
(* fetchStockData(symbol, forceRefresh)                                    *)
(***************************************************************************)
StockCacheValid(t, timestamp) == t - timestamp < CACHE_DURATIONS_stockData

\* lines 398-417: the lookup before the request
StockWarmPath(store, key, t) ==
  LET cached == store[key] IN
  IF cached = Null THEN [hit |-> FALSE, data |-> NullData, store |-> store]
  ELSE IF ~ParseOk(cached)
    THEN [hit |-> FALSE, data |-> NullData, store |-> RemoveItem(store, key)]
  ELSE LET e == JSONparse(cached) IN
       IF StockCacheValid(t, e.timestamp)
         THEN [hit |-> TRUE, data |-> e.data, store |-> store]
         ELSE [hit |-> FALSE, data |-> NullData, store |-> RemoveItem(store, key)]

\* lines 445-457: the lookup of the catch block
StockFallback(store, key) ==
  LET cached == store[key] IN
  IF cached # Null /\ ParseOk(cached)
    THEN [found |-> TRUE, data |-> JSONparse(cached).data]
    ELSE [found |-> FALSE, data |-> NullData]

\* lines 398-426: the getItem of line 400 is outside every try block
FetchStockData(symbol, forceRefresh) ==
  LET key == StockKey(symbol)
      url == StockUrl(symbol)
      warm == IF forceRefresh
                THEN [hit |-> FALSE, data |-> NullData, store |-> storage]
                ELSE StockWarmPath(storage, key, now)
  IN /\ started < MaxCalls
     /\ started' = started + 1
     /\ IF ~forceRefresh /\ ~Readable(health)
          THEN /\ ThrowAtOnce("fetchStockData", key, url, forceRefresh, StorageError)
               /\ UNCHANGED <<storage, calls>>
          ELSE /\ storage' = warm.store
               /\ IF warm.hit
                    THEN ReturnCached("fetchStockData", key, url, forceRefresh, warm.data)
                         /\ UNCHANGED calls
                    ELSE Suspend("fetchStockData", symbol, forceRefresh, key, url)
     /\ UNCHANGED now
     /\ UNCHANGED watchVars
     /\ UNCHANGED envVars

FetchStockDataResume(i, resp) ==
  LET c == calls[i]
      r == RemoteResult(resp)
      fb == StockFallback(storage, c.key)
  IN /\ c.op = "fetchStockData"
     /\ calls' = [calls EXCEPT ![i] = Idle]
     /\ IF ~r.threw
          THEN /\ storage' = TrySetCachedData(health, storage, c.key, r.data, now)
               /\ Settle(c, resp, "network", r.data, "")
          ELSE /\ UNCHANGED storage
               /\ IF ~Readable(health)
                    THEN Settle(c, resp, "error", NullData, StorageError)
                  ELSE IF fb.found
                    THEN Settle(c, resp, "fallback", fb.data, "")
                    ELSE Settle(c, resp, "error", NullData, r.message)
     /\ UNCHANGED <<now, started>>
     /\ UNCHANGED watchVars
     /\ UNCHANGED envVars

(***************************************************************************)
(* fetchMarketMovers(forceRefresh) and fetchNews(symbol, forceRefresh):    *)
(* both look the cache up through getCachedData, before the request and in *)
(* the catch block.                                                        *)
(***************************************************************************)
CachedAccessor(op, symbol, forceRefresh, key, url) ==
  LET warm == IF forceRefresh
                THEN [value |-> NullData, store |-> storage]
                ELSE TryGetCachedData(health, storage, key, now)
  IN /\ started < MaxCalls
     /\ started' = started + 1
     /\ storage' = warm.store
     /\ IF Truthy(warm.value)
          THEN ReturnCached(op, key, url, forceRefresh, warm.value) /\ UNCHANGED calls
          ELSE Suspend(op, symbol, forceRefresh, key, url)
     /\ UNCHANGED now
     /\ UNCHANGED watchVars
     /\ UNCHANGED envVars

CachedAccessorResume(op, i, resp) ==
  LET c == calls[i]
      r == RemoteResult(resp)
      fb == TryGetCachedData(health, storage, c.key, now)
  IN /\ c.op = op
     /\ calls' = [calls EXCEPT ![i] = Idle]
     /\ IF ~r.threw
          THEN /\ storage' = TrySetCachedData(health, storage, c.key, r.data, now)
               /\ Settle(c, resp, "network", r.data, "")
          ELSE /\ storage' = fb.store
               /\ IF Truthy(fb.value)
                    THEN Settle(c, resp, "fallback", fb.value, "")
                    ELSE Settle(c, resp, "error", NullData, r.message)
     /\ UNCHANGED <<now, started>>
     /\ UNCHANGED watchVars
     /\ UNCHANGED envVars

FetchMarketMovers(forceRefresh) ==
  CachedAccessor("fetchMarketMovers", NoSymbol, forceRefresh, MoversKey, MoversUrl)
FetchMarketMoversResume(i, resp) == CachedAccessorResume("fetchMarketMovers", i, resp)

FetchNews(symbol, forceRefresh) ==
  CachedAccessor("fetchNews", symbol, forceRefresh, NewsKey(symbol), NewsUrl(symbol))

\* mutant: a failed request is issued once more before the call gives up
FetchNewsResumeRetry(i, resp) ==
  IF calls[i].op = "fetchNews" /\ calls[i].requests < 2 /\ RemoteResult(resp).threw
    THEN /\ calls' = [calls EXCEPT ![i].requests = @ + 1]
         /\ ret' = NoRet
         /\ UNCHANGED <<now, storage, started>>
         /\ UNCHANGED watchVars
         /\ UNCHANGED envVars
    ELSE CachedAccessorResume("fetchNews", i, resp)

FetchNewsResume(i, resp) == CachedAccessorResume("fetchNews", i, resp)

(***************************************************************************)
(* fetchPortfolAIAnalysis(symbol): the request, and what the call gives    *)
(* when the response is there.  It has no cache key.                       *)
(***************************************************************************)
AnalysisUrl(symbol) == "/api/portfolai-analysis/?symbol=" \o symbol

FetchPortfolAIAnalysis(symbol) ==
  /\ started < MaxCalls
  /\ started' = started + 1
  /\ HasFree
  /\ calls' = [calls EXCEPT ![FirstFree] =
                 [op |-> "fetchPortfolAIAnalysis", symbol |-> symbol,
                  force |-> FALSE, key |-> "", url |-> AnalysisUrl(symbol),
                  pre |-> Null, fresh |-> FALSE, requests |-> 1]]
  /\ ret' = NoRet
  /\ UNCHANGED <<now, storage>>
  /\ UNCHANGED watchVars
  /\ UNCHANGED envVars

\* mutant: a failed call falls back on the stock entry of the symbol
FetchPortfolAIAnalysisResumeFallback(i, resp) ==
  LET c == calls[i]
      r == RemoteResult(resp)
      fb == StockFallback(storage, StockKey(c.symbol))
  IN /\ c.op = "fetchPortfolAIAnalysis"
     /\ calls' = [calls EXCEPT ![i] = Idle]
     /\ ret' = [NoRet EXCEPT !.op = c.op, !.url = c.url,
                  !.how = IF ~r.threw THEN "network"
                          ELSE IF fb.found THEN "fallback" ELSE "error",
                  !.value = IF r.threw /\ fb.found THEN fb.data ELSE r.data,
                  !.message = IF r.threw /\ ~fb.found THEN r.message ELSE "",
                  !.requests = c.requests, !.resp = resp]
     /\ UNCHANGED <<now, storage, started>>
     /\ UNCHANGED watchVars
     /\ UNCHANGED envVars

\* lines 527-542: the data of a 2xx response without an error field is
\* returned, every error is thrown again
FetchPortfolAIAnalysisResume(i, resp) ==
  LET c == calls[i]
      r == RemoteResult(resp)
  IN /\ c.op = "fetchPortfolAIAnalysis"
     /\ calls' = [calls EXCEPT ![i] = Idle]
     /\ ret' = [NoRet EXCEPT !.op = c.op, !.url = c.url,
                  !.how = IF r.threw THEN "error" ELSE "network",
                  !.value = r.data, !.message = r.message,
                  !.requests = c.requests, !.resp = resp]
     /\ UNCHANGED <<now, storage, started>>
     /\ UNCHANGED watchVars
     /\ UNCHANGED envVars

(***************************************************************************)
(* populateNewsFeed(symbol) of ui.js, up to its `await fetchNews(...)`.    *)
(* `typed` is the text of the search field and `present` whether the page  *)
(* has the news feed element.  clearCachedData(key) removes the entry of   *)
(* one key.                                                                *)
(***************************************************************************)
\* what the user may have typed, and what performSearch may pass
SearchTexts == {"", "TSLA", "aapl "}
\* s.toUpperCase().trim()
ToUpperCaseTrim(s) == IF s = "aapl " THEN "AAPL" ELSE s

ClearCachedData(store, key) == RemoveItem(store, key)

\* mutant: only the entries of the new symbol and of the general feed go
ClearNewsCachesOwn(store, currentSymbol) ==
  ClearCachedData(ClearCachedData(store, "news_" \o currentSymbol), "news_general")

\* lines 283-299: the entry of the new symbol, the entry of the general
\* feed and, for every key of localStorage that starts with news_ and is not
\* the new symbol's, the entry of that key
ClearNewsCaches(store, currentSymbol) ==
  LET own == "news_" \o currentSymbol
      cleared == ClearCachedData(ClearCachedData(store, own), "news_general")
  IN [k \in DOMAIN cleared |->
        IF cleared[k] # Null /\ StartsWith(k, "news_") /\ k # own
          THEN ClearCachedData(cleared, k)[k]
          ELSE cleared[k]]

PopulateNewsFeed(symbol, typed, present) ==
  LET currentSymbol == IF symbol # NoSymbol /\ ToUpperCaseTrim(symbol) # ""
                         THEN ToUpperCaseTrim(symbol)
                         ELSE ToUpperCaseTrim(typed)
      shouldForceRefresh == symbol # NoSymbol /\ symbol # ""
      cleared == IF shouldForceRefresh /\ currentSymbol # ""
                   THEN ClearNewsCaches(storage, currentSymbol)
                   ELSE storage
      arg == IF currentSymbol # "" THEN currentSymbol ELSE NoSymbol
      key == NewsKey(arg)
      url == NewsUrl(arg)
      warm == IF shouldForceRefresh
                THEN [value |-> NullData, store |-> cleared]
                ELSE TryGetCachedData(health, cleared, key, now)
  IN /\ started < MaxCalls
     /\ started' = started + 1
     /\ IF ~present
          THEN ret' = NoRet /\ UNCHANGED <<storage, calls>>
          ELSE /\ storage' = warm.store
               /\ IF Truthy(warm.value)
                    THEN /\ ret' = Cached(cleared, "fetchNews", key, url,
                                          shouldForceRefresh, warm.value)
                         /\ UNCHANGED calls
                    ELSE /\ HasFree
                         /\ calls' = [calls EXCEPT ![FirstFree] =
                                Suspended(cleared, "fetchNews", arg,
                                          shouldForceRefresh, key, url)]
                         /\ ret' = [NoRet EXCEPT
                                !.op = "populateNewsFeed", !.key = key,
                                !.url = url, !.force = shouldForceRefresh,
                                !.pre = storage[key],
                                !.purged = {k \in DOMAIN storage :
                                              storage[k] # Null /\ cleared[k] = Null}]
     /\ UNCHANGED now
     /\ UNCHANGED watchVars
     /\ UNCHANGED envVars

\* time passes between two handler runs
Tick ==
  /\ now + TickMs <= MaxTicks * TickMs
  /\ now' = now + TickMs
  /\ ret' = NoRet
  /\ UNCHANGED <<storage, calls, started>>
  /\ UNCHANGED watchVars
  /\ UNCHANGED envVars

\* time passes by a little less than a minute, or by a minute
ElapseSteps == {59999, 60000}
Elapse(d) ==
  /\ now + d <= MaxTicks * TickMs
  /\ now' = now + d
  /\ ret' = NoRet
  /\ UNCHANGED <<storage, calls, started>>
  /\ UNCHANGED watchVars
  /\ UNCHANGED envVars

\* other scripts of the origin fill localStorage up to its quota
QuotaExceeded ==
  /\ health = "ok"
  /\ health' = "full"
  /\ ret' = NoRet
  /\ UNCHANGED <<now, storage, calls, started, lastSet, probe>>
  /\ UNCHANGED watchVars
  /\ UNCHANGED pageVars

\* what the backend may answer to the request of the call in slot i
Answers(i) == Responses(calls[i].url, now)

(***************************************************************************)
(* The watchlist.  JavaScript array operations on `watchlist`.             *)
(***************************************************************************)
Includes(list, x) == \E k \in 1..Len(list) : list[k] = x
\* indexOf: the first index of x, 0 standing for JavaScript's -1
IndexOf(list, x) ==
  IF Includes(list, x)
    THEN CHOOSE k \in 1..Len(list) :
           list[k] = x /\ \A j \in 1..(k - 1) : list[j] # x
    ELSE 0
\* splice(index, 1)
Splice(list, k) == SubSeq(list, 1, k - 1) \o SubSeq(list, k + 1, Len(list))
Push(list, x) == Append(list, x)

IsStockInWatchlist(symbol) == Includes(watchlist, symbol)

(***************************************************************************)
(* The backend's watchlist endpoints: GET /api/watchlist/, POST            *)
(* /api/watchlist/add/ and DELETE /api/watchlist/remove/.  The backend     *)
(* keeps one list without duplicates per user; an anonymous session gets   *)
(* 401.  A request that cannot be applied (adding a symbol that is there,  *)
(* removing one that is not) is answered with success or with 400, and any *)
(* request may be answered 500 with nothing changed.                       *)
(***************************************************************************)
NoReply == [rejected |-> FALSE, ok |-> FALSE, status |-> 0, symbols |-> <<>>]
Rejected == [rejected |-> TRUE, ok |-> FALSE, status |-> 0, symbols |-> <<>>]
Reply(st, symbols) ==
  [rejected |-> FALSE, ok |-> (st = 200), status |-> st, symbols |-> symbols]

\* the outcomes {list, reply} of one request against the backend's list
ServerOutcomes(method, symbol, list) ==
  IF ~authenticated THEN {[list |-> list, reply |-> Reply(401, <<>>)]}
  ELSE {[list |-> list, reply |-> Reply(500, <<>>)]} \cup
    CASE method = "GET" -> {[list |-> list, reply |-> Reply(200, list)]}
      [] method = "POST" ->
           IF Includes(list, symbol)
             THEN {[list |-> list, reply |-> Reply(st, <<>>)] : st \in {200, 400}}
             ELSE {[list |-> Append(list, symbol), reply |-> Reply(200, <<>>)]}
      [] method = "DELETE" ->
           IF Includes(list, symbol)
             THEN {[list |-> Splice(list, IndexOf(list, symbol)),
                    reply |-> Reply(200, <<>>)]}
             ELSE {[list |-> list, reply |-> Reply(st, <<>>)] : st \in {200, 400}}

(***************************************************************************)
(* Watchlist calls in flight.  A request first reaches the backend         *)
(* (stage "sent" to "answered"), then its response reaches the page; the   *)
(* network may fail on either leg, and fetch then rejects.                 *)
(***************************************************************************)
WIdle == [op |-> "idle", symbol |-> "", isIn |-> FALSE, method |-> "",
          cont |-> "", stage |-> "", reply |-> NoReply]
WSlots == 1..MaxWatchInFlight
WFreeSlots(ws) == {i \in WSlots : ws[i] = WIdle}
WFirstFree(ws) == CHOOSE i \in WFreeSlots(ws) : \A j \in WFreeSlots(ws) : i <= j
WCall(op, symbol, isIn, method, cont) ==
  [op |-> op, symbol |-> symbol, isIn |-> isIn, method |-> method,
   cont |-> cont, stage |-> "sent", reply |-> NoReply]

NoWRet == [op |-> "none", symbol |-> "", isIn |-> FALSE, reply |-> NoReply,
           alerted |-> FALSE, before |-> <<>>, threw |-> FALSE, value |-> <<>>]

ServerHandle(i) ==
  /\ wcalls[i].op # "idle"
  /\ wcalls[i].stage = "sent"
  /\ \E o \in ServerOutcomes(wcalls[i].method, wcalls[i].symbol, serverList) :
       /\ serverList' = o.list
       /\ wcalls' = [wcalls EXCEPT ![i].stage = "answered", ![i].reply = o.reply]
  /\ wret' = NoWRet
  /\ ret' = NoRet
  /\ UNCHANGED <<now, storage, calls, started, watchlist, authenticated, wstarted,
                 loaded, legacy, mig>>
  /\ UNCHANGED envVars

\* what `await fetch` of the call in slot i can give to the page
WAnswers(i) ==
  IF wcalls[i].stage = "answered" THEN {wcalls[i].reply, Rejected} ELSE {Rejected}

(***************************************************************************)
(* renderWatchlist().  Up to its first await it either calls loadWatchlist *)
(* (empty list) or starts fetchStockData(symbol) for every symbol of the   *)
(* list, in order; each of these runs to its own first await.              *)
(***************************************************************************)
RECURSIVE RenderFetches(_, _, _)
RenderFetches(list, store, cs) ==
  IF list = <<>> \/ ~Readable(health) THEN [ok |-> TRUE, store |-> store, calls |-> cs]
  ELSE LET symbol == Head(list)
           key == StockKey(symbol)
           warm == StockWarmPath(store, key, now)
           free == {i \in Slots : cs[i] = Idle}
       IN IF warm.hit THEN RenderFetches(Tail(list), warm.store, cs)
          ELSE IF free = {} THEN [ok |-> FALSE, store |-> store, calls |-> cs]
          ELSE RenderFetches(Tail(list), warm.store,
                 [cs EXCEPT ![CHOOSE i \in free : \A j \in free : i <= j] =
                    Suspended(store, "fetchStockData", symbol, FALSE, key,
                              StockUrl(symbol))])

\* lines 188-217: the part after the list is known to be loaded
RenderLoaded(list, store, cs, ws) ==
  LET r == RenderFetches(list, store, cs)
  IN [ok |-> r.ok, store |-> r.store, calls |-> r.calls, wcalls |-> ws]

\* lines 182-217
RenderWatchlist(list, store, cs, ws) ==
  IF Len(list) = 0
    THEN IF WFreeSlots(ws) = {}
           THEN [ok |-> FALSE, store |-> store, calls |-> cs, wcalls |-> ws]
           ELSE [ok |-> TRUE, store |-> store, calls |-> cs,
                 wcalls |-> [ws EXCEPT ![WFirstFree(ws)] =
                               WCall("loadWatchlist", "", FALSE, "GET", "render")]]
    ELSE RenderLoaded(list, store, cs, ws)

\* the page calls renderWatchlist() (application start-up)
RenderWatchlistCall ==
  LET r == RenderWatchlist(watchlist, storage, calls, wcalls)
  IN /\ wstarted < MaxWatchCalls
     /\ wstarted' = wstarted + 1
     /\ r.ok
     /\ storage' = r.store /\ calls' = r.calls /\ wcalls' = r.wcalls
     /\ wret' = NoWRet /\ ret' = NoRet
     /\ UNCHANGED <<now, started, watchlist, serverList, authenticated, loaded,
                    legacy, mig>>
     /\ UNCHANGED envVars

(***************************************************************************)
(* toggleWatchlist(symbol)                                                 *)
(***************************************************************************)
\* mutant: response.ok is not looked at
ToggleConfirmedNoStatus(reply) == ~reply.rejected

\* lines 115-117 and 135-137: the request went through and was accepted
ToggleConfirmed(reply) == ~reply.rejected /\ reply.ok

\* lines 119-123
RemoveLocal(list, symbol) ==
  LET index == IndexOf(list, symbol)
  IN IF index > 0 THEN Splice(list, index) ELSE list

\* mutant: the guard of the push is the wrong way round
AddLocalInverted(list, symbol) ==
  IF Includes(list, symbol) THEN Push(list, symbol) ELSE list

\* mutant: the push is not guarded
AddLocalAlways(list, symbol) == Push(list, symbol)

\* lines 139-142
AddLocal(list, symbol) ==
  IF ~Includes(list, symbol) THEN Push(list, symbol) ELSE list

ToggleWatchlist(symbol) ==
  /\ wstarted < MaxWatchCalls
  /\ wstarted' = wstarted + 1
  /\ IF symbol = ""
       THEN UNCHANGED wcalls
       ELSE /\ WFreeSlots(wcalls) # {}
            /\ wcalls' = [wcalls EXCEPT ![WFirstFree(wcalls)] =
                 WCall("toggleWatchlist", symbol, IsStockInWatchlist(symbol),
                       IF IsStockInWatchlist(symbol) THEN "DELETE" ELSE "POST",
                       "none")]
  /\ wret' = NoWRet /\ ret' = NoRet
  /\ UNCHANGED <<now, storage, calls, started, watchlist, serverList, authenticated,
                 loaded, legacy, mig>>
  /\ UNCHANGED envVars

ToggleWatchlistResume(i, reply) ==
  LET c == wcalls[i]
      done == [wcalls EXCEPT ![i] = WIdle]
      list == IF c.isIn THEN RemoveLocal(watchlist, c.symbol)
                        ELSE AddLocal(watchlist, c.symbol)
      r == RenderWatchlist(list, storage, calls, done)
  IN /\ c.op = "toggleWatchlist"
     /\ IF ToggleConfirmed(reply)
          THEN /\ r.ok
               /\ watchlist' = list
               /\ storage' = r.store /\ calls' = r.calls /\ wcalls' = r.wcalls
               /\ wret' = [op |-> c.op, symbol |-> c.symbol, isIn |-> c.isIn,
                           reply |-> reply, alerted |-> FALSE,
                           before |-> watchlist, threw |-> FALSE, value |-> <<>>]
          ELSE /\ wcalls' = done
               /\ wret' = [op |-> c.op, symbol |-> c.symbol, isIn |-> c.isIn,
                           reply |-> reply, alerted |-> TRUE,
                           before |-> watchlist, threw |-> FALSE, value |-> <<>>]
               /\ UNCHANGED <<watchlist, storage, calls>>
     /\ ret' = NoRet
     /\ UNCHANGED <<now, started, serverList, authenticated, wstarted, loaded,
                    legacy, mig>>
     /\ UNCHANGED envVars

(***************************************************************************)
(* loadWatchlist(), called by initializeWatchlist (which then renders), by *)
(* renderWatchlist (which then goes on with the loaded list) and by        *)
(* migrateLocalStorageWatchlist.                                           *)
(***************************************************************************)
\* lines 27-37 and the catch block: the value `watchlist` has afterwards
LoadedList(list, reply) ==
  IF ~reply.rejected /\ reply.ok THEN reply.symbols ELSE list

\* mutant: the error of a failed request is not caught
LoadWatchlistNoCatch(reply) ==
  IF reply.rejected \/ (~reply.ok /\ reply.status # 401)
    THEN [threw |-> TRUE, value |-> <<>>]
  ELSE IF ~reply.ok THEN [threw |-> FALSE, value |-> <<>>]
  ELSE [threw |-> FALSE, value |-> reply.symbols]

\* lines 17-43: how the promise of loadWatchlist() settles.  A rejected fetch
\* and the error thrown for a status other than 401 land in the catch block.
LoadWatchlist(reply) ==
  LET thrown == reply.rejected \/ (~reply.ok /\ reply.status # 401)
  IN IF thrown THEN [threw |-> FALSE, value |-> <<>>]
     ELSE IF ~reply.ok THEN [threw |-> FALSE, value |-> <<>>]
     ELSE [threw |-> FALSE, value |-> reply.symbols]

(***************************************************************************)
(* migrateLocalStorageWatchlist().  `legacy` is the list stored under      *)
(* 'stockWatchlist' (empty when the key is absent).  `mig` holds the list  *)
(* the running call read (localWatchlist) and the position of its loop     *)
(* (index 0: no call is in its loop), and records the symbols for which    *)
(* an add request was issued (log), whether an add was not accepted        *)
(* (failed) and whether a migration has run to its end (completed).        *)
(* The page calls initializeWatchlist once, so migrations do not overlap.  *)
(***************************************************************************)
NoMigration == [list |-> <<>>, index |-> 0, caller |-> "", log |-> <<>>,
                failed |-> FALSE, completed |-> FALSE]

\* mutant: a rejected add is tried again
MigrateStepRetry(index, reply) == IF reply.rejected THEN index ELSE index + 1

\* lines 60-73: the loop goes on to the next symbol whatever the add gave
MigrateStep(index, reply) == index + 1

\* mutant: the legacy key is left in place
ClearLegacyKeep(list) == list

\* line 76: localStorage.removeItem('stockWatchlist')
ClearLegacy(list) == <<>>

\* lines 51-73: read the legacy list; if it is not empty issue the add of
\* its first symbol
MigrateBegin(caller) ==
  IF Len(legacy) = 0
    THEN UNCHANGED <<wcalls, mig>>
    ELSE /\ mig.index = 0
         /\ WFreeSlots(wcalls) # {}
         /\ wcalls' = [wcalls EXCEPT ![WFirstFree(wcalls)] =
                         WCall("migrateLocalStorageWatchlist", legacy[1], FALSE,
                               "POST", "migrate")]
         /\ mig' = [list |-> legacy, index |-> 1, caller |-> caller,
                    log |-> <<legacy[1]>>, failed |-> FALSE,
                    completed |-> mig.completed]

\* a call of migrateLocalStorageWatchlist() by itself
MigrateLocalStorageWatchlist ==
  /\ wstarted < MaxWatchCalls
  /\ wstarted' = wstarted + 1
  /\ MigrateBegin("direct")
  /\ wret' = NoWRet /\ ret' = NoRet
  /\ UNCHANGED <<now, storage, calls, started, watchlist, serverList, authenticated,
                 loaded, legacy>>
  /\ UNCHANGED envVars

\* lines 60-80: the add of the symbol at mig.index has settled; the next add
\* is issued or, after the last one, the legacy key is removed and
\* loadWatchlist is called
MigrateAddResume(i, reply) ==
  LET c == wcalls[i]
      done == [wcalls EXCEPT ![i] = WIdle]
      next == MigrateStep(mig.index, reply)
      failed == mig.failed \/ reply.rejected \/ ~reply.ok
  IN /\ c.op = "migrateLocalStorageWatchlist"
     /\ IF next <= Len(mig.list)
          THEN /\ wcalls' = [done EXCEPT ![WFirstFree(done)] =
                               WCall("migrateLocalStorageWatchlist", mig.list[next],
                                     FALSE, "POST", "migrate")]
               /\ mig' = [mig EXCEPT !.index = next,
                                     !.log = Append(@, mig.list[next]),
                                     !.failed = failed]
               /\ UNCHANGED legacy
          ELSE /\ legacy' = ClearLegacy(legacy)
               /\ wcalls' = [done EXCEPT ![WFirstFree(done)] =
                               WCall("loadWatchlist", "", FALSE, "GET", "migrate")]
               /\ mig' = [mig EXCEPT !.index = 0, !.failed = failed]
     /\ wret' = [op |-> c.op, symbol |-> c.symbol, isIn |-> FALSE,
                 reply |-> reply, alerted |-> FALSE, before |-> watchlist,
                 threw |-> FALSE, value |-> <<>>]
     /\ ret' = NoRet
     /\ UNCHANGED <<now, storage, calls, started, watchlist, serverList,
                    authenticated, wstarted, loaded>>
     /\ UNCHANGED envVars

\* initializeWatchlist(), lines 289-301: migrate when there is a legacy list,
\* else loadWatchlist; then renderWatchlist
InitializeWatchlist ==
  /\ wstarted < MaxWatchCalls
  /\ wstarted' = wstarted + 1
  /\ IF Len(legacy) > 0
       THEN MigrateBegin("initialize")
       ELSE /\ WFreeSlots(wcalls) # {}
            /\ wcalls' = [wcalls EXCEPT ![WFirstFree(wcalls)] =
                            WCall("loadWatchlist", "", FALSE, "GET", "initialize")]
            /\ UNCHANGED mig
  /\ wret' = NoWRet /\ ret' = NoRet
  /\ UNCHANGED <<now, storage, calls, started, watchlist, serverList, authenticated,
                 loaded, legacy>>
  /\ UNCHANGED envVars

LoadWatchlistResume(i, reply) ==
  LET c == wcalls[i]
      done == [wcalls EXCEPT ![i] = WIdle]
      list == LoadedList(watchlist, reply)
      lw == LoadWatchlist(reply)
      renders == c.cont = "initialize" \/ (c.cont = "migrate" /\ mig.caller = "initialize")
      r == IF renders THEN RenderWatchlist(list, storage, calls, done)
           ELSE IF c.cont = "render" THEN RenderLoaded(list, storage, calls, done)
           ELSE [ok |-> TRUE, store |-> storage, calls |-> calls, wcalls |-> done]
  IN /\ c.op = "loadWatchlist"
     /\ r.ok
     /\ watchlist' = list
     /\ storage' = r.store /\ calls' = r.calls /\ wcalls' = r.wcalls
     /\ wret' = [op |-> c.op, symbol |-> "", isIn |-> FALSE,
                 reply |-> reply, alerted |-> FALSE, before |-> watchlist,
                 threw |-> lw.threw, value |-> lw.value]
     /\ loaded' = (loaded \/ (~reply.rejected /\ reply.ok))
     /\ mig' = IF c.cont = "migrate" THEN [mig EXCEPT !.completed = TRUE] ELSE mig
     /\ ret' = NoRet
     /\ UNCHANGED <<now, started, serverList, authenticated, wstarted, legacy>>
     /\ UNCHANGED envVars

(***************************************************************************)
(* The cache key of an accessor call, as a function of the accessor        *)
(* (category) and its symbol argument (parameter).  `probe` holds two      *)
(* calls and the keys they have built ("": not built yet).                 *)
(***************************************************************************)
KeyCalls ==
  {[category |-> "stockData", parameter |-> p] : p \in Symbols \cup {"general"}}
    \cup {[category |-> "marketMovers", parameter |-> NoSymbol]}
    \cup {[category |-> "news", parameter |-> p] :
            p \in Symbols \cup {"general", "", NoSymbol}}

CacheKey(call) ==
  CASE call.category = "stockData" -> StockKey(call.parameter)
    [] call.category = "marketMovers" -> MoversKey
    [] call.category = "news" -> NewsKey(call.parameter)

NoProbe == [a |-> [category |-> "", parameter |-> ""],
            b |-> [category |-> "", parameter |-> ""], ka |-> "", kb |-> ""]

\* the first and the second call build their keys
BuildFirstKey ==
  /\ probe.ka = ""
  /\ probe' = [probe EXCEPT !.ka = CacheKey(probe.a)]
  /\ UNCHANGED <<cacheVars, watchVars, health, lastSet, pageVars>>

BuildSecondKey ==
  /\ probe.kb = ""
  /\ probe' = [probe EXCEPT !.kb = CacheKey(probe.b)]
  /\ UNCHANGED <<cacheVars, watchVars, health, lastSet, pageVars>>

(***************************************************************************)
(* setCachedData(key, data) and getCachedData(key) called by themselves.   *)
(* `lastSet` remembers, per key, the data and the time of the last         *)
(* setCachedData call.                                                     *)
(***************************************************************************)
\* no setCachedData call yet
NoSet == [set |-> FALSE, data |-> NullData, at |-> 0]

\* JSON values handed to setCachedData: two objects and null
StoredValues == {Payload("a", 0), ErrorBody("b", "x"), NullData}

SetCachedDataCall(key, data) ==
  /\ started < MaxCalls
  /\ started' = started + 1
  /\ storage' = TrySetCachedData(health, storage, key, data, now)
  /\ lastSet' = [lastSet EXCEPT ![key] = [set |-> TRUE, data |-> data, at |-> now]]
  /\ ret' = NoRet
  /\ UNCHANGED <<now, calls, health, probe>>
  /\ UNCHANGED watchVars
  /\ UNCHANGED pageVars

GetCachedDataCall(key) ==
  LET r == TryGetCachedData(health, storage, key, now)
  IN /\ started < MaxCalls
     /\ started' = started + 1
     /\ storage' = r.store
     /\ ret' = [NoRet EXCEPT !.op = "getCachedData", !.key = key,
                             !.value = r.value, !.pre = storage[key],
                             !.found = r.store[key]]
     /\ UNCHANGED <<now, calls>>
     /\ UNCHANGED watchVars
     /\ UNCHANGED envVars

(***************************************************************************)
(* The page around the data layer: the stock search (stock.js), the        *)
(* autocomplete of the search field (stock.js) and the chat (chat.js).     *)
(***************************************************************************)
\* s.trim()
Trim(s) == IF s = " " THEN "" ELSE IF s = "aapl " THEN "aapl" ELSE s
\* the sequence of suspended calls without its element j
Without(seq, j) == SubSeq(seq, 1, j - 1) \o SubSeq(seq, j + 1, Len(seq))

\* the search field is empty, the details show "Search for a stock to see
\* details.", the error line is hidden
NoSearch == [input |-> "", shown |-> "", data |-> NullData, error |-> ""]
(***************************************************************************)
(* performSearch() of stock.js.  It reads the search field, calls          *)
(* fetchStockData(searchTerm, true) and, when that has returned, shows the *)
(* details and calls populateNewsFeed(searchTerm), which purges the news   *)
(* entries and calls fetchNews(searchTerm, true).  What follows in the     *)
(* handler (company overview, chart, buttons) touches neither the cache    *)
(* nor the details.                                                        *)
(***************************************************************************)
\* mutant: only the answer to the search typed last is shown
DisplayStockDetailsLatest(cur, stock, symbol) ==
  IF symbol # ToUpperCaseTrim(cur.input) THEN cur
  ELSE IF Truthy(stock) THEN [cur EXCEPT !.shown = symbol, !.data = stock]
  ELSE [cur EXCEPT !.shown = "", !.data = NullData]

\* displayStockDetails(stock, symbol), lines 489-543
DisplayStockDetails(cur, stock, symbol) ==
  IF Truthy(stock) THEN [cur EXCEPT !.shown = symbol, !.data = stock]
  ELSE [cur EXCEPT !.shown = "", !.data = NullData]

\* lines 348-385: up to `await fetchStockData(searchTerm, true)`
PerformSearch(typed) ==
  LET searchTerm == ToUpperCaseTrim(typed)
      cur == [search EXCEPT !.input = typed, !.error = ""]
  IN /\ started < MaxCalls
     /\ started' = started + 1
     /\ IF searchTerm = ""
          THEN /\ search' = DisplayStockDetails(cur, NullData, "N/A")
               /\ UNCHANGED calls
          ELSE /\ HasFree
               /\ calls' = [calls EXCEPT ![FirstFree] =
                    [Suspended(storage, "fetchStockData", searchTerm, TRUE,
                               StockKey(searchTerm), StockUrl(searchTerm))
                       EXCEPT !.op = "performSearch"]]
               /\ search' = cur
     /\ ret' = NoRet
     /\ UNCHANGED <<now, storage, health, lastSet, probe, suggest, chat>>
     /\ UNCHANGED watchVars

\* the rest of fetchStockData (lines 427-457) and lines 386-415 of
\* performSearch, or its catch block (lines 461-473)
PerformSearchResume(i, resp) ==
  LET c == [calls[i] EXCEPT !.op = "fetchStockData"]
      r == RemoteResult(resp)
      fb == StockFallback(storage, c.key)
      returned == ~r.threw \/ (Readable(health) /\ fb.found)
      stockData == IF ~r.threw THEN r.data ELSE fb.data
      stored == IF ~r.threw
                  THEN TrySetCachedData(health, storage, c.key, r.data, now)
                  ELSE storage
      cleared == ClearNewsCaches(stored, c.symbol)
      done == [calls EXCEPT ![i] = Idle]
      free == {j \in Slots : done[j] = Idle}
      first == CHOOSE j \in free : \A k \in free : j <= k
  IN /\ calls[i].op = "performSearch"
     /\ IF returned /\ Truthy(stockData)
          THEN /\ search' = DisplayStockDetails(search, stockData, c.symbol)
               /\ storage' = cleared
               /\ calls' = [done EXCEPT ![first] =
                    Suspended(cleared, "fetchNews", c.symbol, TRUE,
                              NewsKey(c.symbol), NewsUrl(c.symbol))]
               /\ Settle(c, resp, IF r.threw THEN "fallback" ELSE "network",
                         stockData, "")
          ELSE /\ search' =
                    IF returned
                      THEN [DisplayStockDetails(search, stockData, c.symbol)
                              EXCEPT !.error = "Error: TypeError"]
                      ELSE [search EXCEPT !.error =
                              "Error: " \o (IF Readable(health) THEN r.message
                                            ELSE StorageError)]
               /\ storage' = stored
               /\ calls' = done
               /\ IF returned THEN Settle(c, resp, "fallback", stockData, "")
                  ELSE Settle(c, resp, "error", NullData,
                              IF Readable(health) THEN r.message ELSE StorageError)
     /\ UNCHANGED <<now, started, health, lastSet, probe, suggest, chat>>
     /\ UNCHANGED watchVars


(***************************************************************************)
(* The autocomplete of the search field (stock.js).  `suggest` holds the   *)
(* variable autocompleteTimeout (the id of the timer set last, 0 for       *)
(* null), the timers that are pending, the requests of                     *)
(* fetchStockSuggestions in flight and the state of the dropdown; `events` *)
(* and `issued` record the input events and the requests issued, with      *)
(* their times.  The id of a timer is the number of the input event that   *)
(* set it.                                                                 *)
(***************************************************************************)
AUTOCOMPLETE_DEBOUNCE_DELAY == 300
NoSuggest == [autocompleteTimeout |-> 0, timers |-> {}, inflight |-> <<>>,
              dropdown |-> "hidden", events |-> <<>>, issued |-> <<>>]

\* mutant: the pending timer is not cleared
ClearTimeoutKeep(timers, id) == timers

\* clearTimeout(id): no effect when no pending timer has the id
ClearTimeout(timers, id) == {t \in timers : t.id # id}

\* handleSearchInput(event), lines 310-332; `text` is event.target.value
HandleSearchInput(text) ==
  LET query == Trim(text)
      n == Len(suggest.events) + 1
      cleared == IF suggest.autocompleteTimeout # 0
                   THEN ClearTimeout(suggest.timers, suggest.autocompleteTimeout)
                   ELSE suggest.timers
      logged == [suggest EXCEPT !.events = Append(@, [query |-> query, at |-> now])]
  IN /\ started < MaxCalls
     /\ started' = started + 1
     /\ search' = [search EXCEPT !.input = text]
     /\ suggest' =
          IF query = ""
            THEN [logged EXCEPT !.timers = cleared, !.dropdown = "hidden"]
            ELSE [logged EXCEPT
                    !.timers = cleared \cup
                       {[id |-> n, query |-> query,
                         due |-> now + AUTOCOMPLETE_DEBOUNCE_DELAY]},
                    !.autocompleteTimeout = n]
     /\ UNCHANGED <<now, storage, calls, ret, health, lastSet, probe, chat>>
     /\ UNCHANGED watchVars

\* the callback of a timer that is due, lines 328-329 and
\* fetchStockSuggestions lines 104-110, up to `await fetch`
TimerFires(t) ==
  /\ t \in suggest.timers
  /\ t.due <= now
  /\ suggest' =
       IF Trim(t.query) = ""
         THEN [suggest EXCEPT !.timers = @ \ {t}, !.dropdown = "no results"]
         ELSE [suggest EXCEPT
                 !.timers = @ \ {t},
                 !.inflight = Append(@, t.query),
                 !.issued = Append(@, [query |-> t.query, at |-> now, event |-> t.id])]
  /\ UNCHANGED <<cacheVars, watchVars, health, lastSet, probe, search, chat>>

\* fetchStockSuggestions lines 110-119 and line 330: results, or the empty
\* list (no match, non-2xx status, rejected fetch)
SuggestionsResume(j, found) ==
  /\ j \in 1..Len(suggest.inflight)
  /\ suggest' = [suggest EXCEPT
       !.inflight = Without(@, j),
       !.dropdown = IF found THEN "results" ELSE "no results"]
  /\ UNCHANGED <<cacheVars, watchVars, health, lastSet, probe, search, chat>>

\* time passes while a timer is pending
WaitMs == 100
Wait ==
  /\ \E t \in suggest.timers : t.due > now
  /\ now' = now + WaitMs
  /\ UNCHANGED <<storage, calls, started, ret>>
  /\ UNCHANGED watchVars
  /\ UNCHANGED envVars

(***************************************************************************)
(* The chat of chat.js.  `chat` holds the text of the input box, the flag  *)
(* isWaiting, the sendMessage calls that are suspended (at `await fetch`   *)
(* or at `await res.json()`), the number of clearChat calls suspended and  *)
(* the messages of the history.                                            *)
(***************************************************************************)
NoChat == [input |-> "", isWaiting |-> FALSE, sends |-> <<>>, clears |-> 0,
           history |-> <<>>]
ChatTexts == {"", " ", "hi"}
Message(role, text) == [role |-> role, text |-> text]

\* what `await fetch("/api/chat/")` can give: a rejection or a response,
\* and what `await res.json()` can give on a response: a rejection (the
\* body is no JSON), an object with a response field or one without
ChatFetchOutcomes == {"rejected", "response"}
ChatBodies(msg) ==
  {[thrown |-> TRUE, response |-> ""],
   [thrown |-> FALSE, response |-> ""],
   [thrown |-> FALSE, response |-> "re: " \o msg]}

\* the user edits the input box
TypeChat(text) ==
  /\ text # chat.input
  /\ chat' = [chat EXCEPT !.input = text]
  /\ UNCHANGED <<cacheVars, watchVars, health, lastSet, probe, search, suggest>>

\* mutant: isWaiting is not looked at
SendAllowedAlways(msg, waiting) == msg # ""

\* line 77: `if (!msg || isWaiting) return;`
SendAllowed(msg, waiting) == msg # "" /\ ~waiting

\* lines 75-90: sendMessage() up to `await fetch`
SendMessage ==
  LET msg == Trim(chat.input)
  IN /\ started < MaxCalls
     /\ started' = started + 1
     /\ IF SendAllowed(msg, chat.isWaiting)
          THEN chat' = [chat EXCEPT
                 !.history = Append(@, Message("user", msg)),
                 !.input = "",
                 !.isWaiting = TRUE,
                 !.sends = Append(@, [msg |-> msg, stage |-> "fetch"])]
          ELSE UNCHANGED chat
     /\ UNCHANGED <<now, storage, calls, ret, health, lastSet, probe, search, suggest>>
     /\ UNCHANGED watchVars

\* mutant: the flag is reset on the way through the try block only
SendMessageEndKeep(c, text, thrown) ==
  [c EXCEPT !.history = Append(@, Message("bot", text)),
            !.isWaiting = IF thrown THEN @ ELSE FALSE]

\* lines 94-104: the bot message of the try block or of the catch block,
\* and the finally block
SendMessageEnd(c, text, thrown) ==
  [c EXCEPT !.history = Append(@, Message("bot", text)),
            !.isWaiting = FALSE]

\* lines 86-92 and 98-104: `await fetch` has settled
SendMessageFetched(j, outcome) ==
  /\ j \in 1..Len(chat.sends)
  /\ chat.sends[j].stage = "fetch"
  /\ chat' =
       IF outcome = "rejected"
         THEN SendMessageEnd([chat EXCEPT !.sends = Without(@, j)],
                             "Error contacting the assistant.", TRUE)
         ELSE [chat EXCEPT !.sends[j].stage = "json"]
  /\ UNCHANGED <<cacheVars, watchVars, health, lastSet, probe, search, suggest>>

\* lines 92-104: `await res.json()` has settled
SendMessageParsed(j, body) ==
  /\ j \in 1..Len(chat.sends)
  /\ chat.sends[j].stage = "json"
  /\ chat' =
       SendMessageEnd([chat EXCEPT !.sends = Without(@, j)],
                      IF body.thrown THEN "Error contacting the assistant."
                      ELSE IF body.response # "" THEN body.response
                      ELSE "Sorry, something went wrong.",
                      body.thrown)
  /\ UNCHANGED <<cacheVars, watchVars, health, lastSet, probe, search, suggest>>

\* lines 108-113: clearChat() up to `await fetch`
ClearChat ==
  /\ chat.clears < MaxInFlight
  /\ chat' = [chat EXCEPT !.clears = @ + 1]
  /\ UNCHANGED <<cacheVars, watchVars, health, lastSet, probe, search, suggest>>

\* lines 115-123: the history is emptied when the backend says success;
\* a rejection and any other answer leave it
ClearChatResume(success) ==
  /\ chat.clears > 0
  /\ chat' = [chat EXCEPT
       !.clears = @ - 1,
       !.history = IF success
                     THEN <<Message("bot", "Chat history cleared. How can I help you?")>>
                     ELSE @]
  /\ UNCHANGED <<cacheVars, watchVars, health, lastSet, probe, search, suggest>>

(***************************************************************************)
(* Specifications.  Spec is the cache layer driven by the page's accessor  *)
(* calls; WatchSpec is the watchlist with the backend.                     *)
(***************************************************************************)
InitCache ==
  /\ now = 0
  /\ storage = [k \in CacheKeys |-> Null]
  /\ calls = [i \in Slots |-> Idle]
  /\ started = 0
  /\ ret = NoRet

InitWatch ==
  /\ watchlist = <<>>
  /\ wcalls = [i \in WSlots |-> WIdle]
  /\ wstarted = 0
  /\ wret = NoWRet
  /\ loaded = FALSE
  /\ mig = NoMigration

\* localStorage works, and nothing outside the accessors has touched it
\* the page as it is loaded: nothing typed, nothing shown, no timer, no chat
InitPage ==
  /\ search = NoSearch
  /\ suggest = NoSuggest
  /\ chat = NoChat

InitEnv ==
  /\ health = "ok"
  /\ lastSet = [k \in CacheKeys |-> NoSet]
  /\ probe = NoProbe
  /\ InitPage

Init ==
  /\ InitCache
  /\ InitWatch
  /\ InitEnv
  /\ serverList = <<>>
  /\ authenticated = TRUE
  /\ legacy = <<>>

WatchInit ==
  /\ InitCache
  /\ InitWatch
  /\ InitEnv
  /\ serverList \in {<<>>, <<"AAPL">>, <<"TSLA", "AAPL">>}
  /\ authenticated \in BOOLEAN
  /\ authenticated \/ serverList = <<>>
  /\ legacy = <<>>

\* a browser that may hold a watchlist of the earlier, local-only version
LegacyLists == {<<>>, <<"AAPL">>, <<"TSLA", "AAPL">>}
MigrateInit ==
  /\ InitCache
  /\ InitWatch
  /\ InitEnv
  /\ serverList \in {<<>>, <<"AAPL">>}
  /\ authenticated \in BOOLEAN
  /\ authenticated \/ serverList = <<>>
  /\ legacy \in LegacyLists

Next ==
  \/ \E s \in Symbols, f \in BOOLEAN : FetchStockData(s, f)
  \/ \E i \in Slots : \E resp \in Answers(i) : FetchStockDataResume(i, resp)
  \/ \E f \in BOOLEAN : FetchMarketMovers(f)
  \/ \E i \in Slots : \E resp \in Answers(i) : FetchMarketMoversResume(i, resp)
  \/ \E s \in NewsArgs, f \in BOOLEAN : FetchNews(s, f)
  \/ \E i \in Slots : \E resp \in Answers(i) : FetchNewsResume(i, resp)
  \/ Tick

Spec == Init /\ [][Next]_vars

WatchNext ==
  \/ \E s \in Symbols \cup {""} : ToggleWatchlist(s)
  \/ \E i \in WSlots : \E reply \in WAnswers(i) : ToggleWatchlistResume(i, reply)
  \/ InitializeWatchlist
  \/ RenderWatchlistCall
  \/ \E i \in WSlots : \E reply \in WAnswers(i) : LoadWatchlistResume(i, reply)
  \/ \E i \in WSlots : ServerHandle(i)
  \/ \E i \in Slots : \E resp \in Answers(i) : FetchStockDataResume(i, resp)

WatchSpec == WatchInit /\ [][WatchNext]_vars

\* the news feed of the page: searches and reloads of the feed
NewsNext ==
  \/ \E symbol \in Symbols \cup {NoSymbol, "aapl "}, typed \in SearchTexts, present \in BOOLEAN :
       PopulateNewsFeed(symbol, typed, present)
  \/ \E i \in Slots : \E resp \in Answers(i) : FetchNewsResume(i, resp)
  \/ Tick

NewsSpec == Init /\ [][NewsNext]_vars

\* two accessor calls with any category and parameter
KeyInit ==
  /\ InitCache
  /\ InitWatch
  /\ health = "ok"
  /\ lastSet = [k \in CacheKeys |-> NoSet]
  /\ \E a \in KeyCalls, b \in KeyCalls : probe = [NoProbe EXCEPT !.a = a, !.b = b]
  /\ InitPage
  /\ serverList = <<>>
  /\ authenticated = TRUE
  /\ legacy = <<>>

KeyNext == BuildFirstKey \/ BuildSecondKey

KeySpec == KeyInit /\ [][KeyNext]_vars

\* the accessors on a localStorage that may be disabled or may fill up
FaultInit ==
  /\ InitCache
  /\ InitWatch
  /\ health \in {"ok", "disabled"}
  /\ lastSet = [k \in CacheKeys |-> NoSet]
  /\ probe = NoProbe
  /\ InitPage
  /\ serverList = <<>>
  /\ authenticated = TRUE
  /\ legacy = <<>>

FaultNext ==
  \/ \E s \in Symbols, f \in BOOLEAN : FetchStockData(s, f)
  \/ \E i \in Slots : \E resp \in Answers(i) : FetchStockDataResume(i, resp)
  \/ \E f \in BOOLEAN : FetchMarketMovers(f)
  \/ \E i \in Slots : \E resp \in Answers(i) : FetchMarketMoversResume(i, resp)
  \/ \E s \in NewsArgs, f \in BOOLEAN : FetchNews(s, f)
  \/ \E i \in Slots : \E resp \in Answers(i) : FetchNewsResume(i, resp)
  \/ QuotaExceeded

FaultSpec == FaultInit /\ [][FaultNext]_vars

\* the accessors on a localStorage in which one cache key holds a value that
\* setCachedData did not write
CorruptInit ==
  /\ now = 0
  /\ \E k \in CacheKeys, c \in CorruptValues :
       storage = [[j \in CacheKeys |-> Null] EXCEPT ![k] = c]
  /\ calls = [i \in Slots |-> Idle]
  /\ started = 0
  /\ ret = NoRet
  /\ InitWatch
  /\ InitEnv
  /\ serverList = <<>>
  /\ authenticated = TRUE
  /\ legacy = <<>>

CorruptNext ==
  \/ \E s \in Symbols, f \in BOOLEAN : FetchStockData(s, f)
  \/ \E i \in Slots : \E resp \in Answers(i) : FetchStockDataResume(i, resp)
  \/ \E f \in BOOLEAN : FetchMarketMovers(f)
  \/ \E i \in Slots : \E resp \in Answers(i) : FetchMarketMoversResume(i, resp)
  \/ \E s \in NewsArgs, f \in BOOLEAN : FetchNews(s, f)
  \/ \E i \in Slots : \E resp \in Answers(i) : FetchNewsResume(i, resp)

CorruptSpec == CorruptInit /\ [][CorruptNext]_vars

\* the cache store used directly
RoundTripNext ==
  \/ \E k \in CacheKeys, v \in StoredValues : SetCachedDataCall(k, v)
  \/ \E k \in CacheKeys : GetCachedDataCall(k)
  \/ Tick

RoundTripSpec == Init /\ [][RoundTripNext]_vars

\* the cache store used directly, with one key of each category and a key of
\* no category, and a clock that reaches the ends of the durations
OtherKeys == {"analysis_AAPL"}
DurationKeys == {"stock_AAPL", "marketMovers", "news_general"} \cup OtherKeys

DurationInit ==
  /\ now = 0
  /\ storage = [k \in CacheKeys \cup OtherKeys |-> Null]
  /\ calls = [i \in Slots |-> Idle]
  /\ started = 0
  /\ ret = NoRet
  /\ InitWatch
  /\ health = "ok"
  /\ lastSet = [k \in CacheKeys \cup OtherKeys |-> NoSet]
  /\ probe = NoProbe
  /\ InitPage
  /\ serverList = <<>>
  /\ authenticated = TRUE
  /\ legacy = <<>>

DurationNext ==
  \/ \E k \in DurationKeys : SetCachedDataCall(k, Payload("a", 0))
  \/ \E k \in DurationKeys : GetCachedDataCall(k)
  \/ \E d \in ElapseSteps : Elapse(d)

DurationSpec == DurationInit /\ [][DurationNext]_vars

\* the analysis of a symbol next to the quotes of the symbols
AnalysisNext ==
  \/ \E s \in Symbols, f \in BOOLEAN : FetchStockData(s, f)
  \/ \E i \in Slots : \E resp \in Answers(i) : FetchStockDataResume(i, resp)
  \/ \E s \in Symbols : FetchPortfolAIAnalysis(s)
  \/ \E i \in Slots : \E resp \in Answers(i) : FetchPortfolAIAnalysisResume(i, resp)
  \/ Tick

AnalysisSpec == Init /\ [][AnalysisNext]_vars

\* searches of the page, one after the other or overlapping
SearchNext ==
  \/ \E typed \in SearchTexts : PerformSearch(typed)
  \/ \E i \in Slots : \E resp \in Answers(i) : PerformSearchResume(i, resp)
  \/ \E i \in Slots : \E resp \in Answers(i) : FetchNewsResume(i, resp)
  \/ Tick

SearchSpec == Init /\ [][SearchNext]_vars

\* the accessors on a page whose watchlist has been loaded
FrameInit ==
  /\ InitCache
  /\ watchlist = <<"TSLA", "AAPL">>
  /\ serverList = <<"TSLA", "AAPL">>
  /\ authenticated = TRUE
  /\ wcalls = [i \in WSlots |-> WIdle]
  /\ wstarted = 0
  /\ wret = NoWRet
  /\ loaded = TRUE
  /\ mig = NoMigration
  /\ legacy = <<>>
  /\ InitEnv

FrameSpec == FrameInit /\ [][Next]_vars

\* the chat widget
ChatNext ==
  \/ \E text \in ChatTexts : TypeChat(text)
  \/ SendMessage
  \/ \E j \in 1..MaxCalls, outcome \in ChatFetchOutcomes : SendMessageFetched(j, outcome)
  \/ \E j \in 1..MaxCalls :
       \E body \in ChatBodies(IF j <= Len(chat.sends) THEN chat.sends[j].msg ELSE "") :
         SendMessageParsed(j, body)
  \/ ClearChat
  \/ \E success \in BOOLEAN : ClearChatResume(success)

ChatSpec == Init /\ [][ChatNext]_vars

\* input events of the search field
SuggestNext ==
  \/ \E text \in SearchTexts : HandleSearchInput(text)
  \/ \E t \in suggest.timers : TimerFires(t)
  \/ \E j \in 1..MaxCalls, found \in BOOLEAN : SuggestionsResume(j, found)
  \/ Wait

SuggestSpec == Init /\ [][SuggestNext]_vars

MigrateNext ==
  \/ InitializeWatchlist
  \/ MigrateLocalStorageWatchlist
  \/ \E i \in WSlots : \E reply \in WAnswers(i) : MigrateAddResume(i, reply)
  \/ \E i \in WSlots : \E reply \in WAnswers(i) : LoadWatchlistResume(i, reply)
  \/ \E i \in WSlots : ServerHandle(i)
  \/ \E i \in Slots : \E resp \in Answers(i) : FetchStockDataResume(i, resp)

MigrateSpec == MigrateInit /\ [][MigrateNext]_vars

(***************************************************************************)
(* Properties.                                                             *)
(***************************************************************************)
\* the remote call of the call recorded in ret failed: network error,
\* non-2xx status, or an error field in the payload
RemoteFailed ==
  /\ ret.requests = 1
  /\ (ret.resp.rejected \/ ~ret.resp.ok \/ ret.resp.body.error # "")
Accessors == {"fetchStockData", "fetchMarketMovers", "fetchNews"}

\* C1: fetchMarketMovers and fetchNews, forced or not: when the remote call
\* fails and the key held an entry of an earlier successful fetch when the
\* call started, however old, the call returns that entry's data instead of
\* rejecting.
C1_StaleFallbackMoversNews ==
  (/\ ret.op \in {"fetchMarketMovers", "fetchNews"}
   /\ RemoteFailed
   /\ ret.pre # Null)
    => (ret.how = "fallback" /\ ret.value = ret.pre.data)

\* C2: fetchStockData, forced or not: when the remote call fails and the key
\* stock_<symbol> held an entry when the call started, even one older than
\* one minute, the call returns that entry's data instead of rejecting.
C2_StaleFallbackStock ==
  (/\ ret.op = "fetchStockData"
   /\ RemoteFailed
   /\ ret.pre # Null)
    => (ret.how = "fallback" /\ ret.value = ret.pre.data)

\* C3: a call with forceRefresh = false that finds an entry younger than the
\* TTL of its category returns that entry's data and issues no request: it
\* ends from the cache with no request made, and no non-forced call that found
\* a fresh entry is ever waiting for a response.
C3_WarmHitNoRequest ==
  /\ (ret.op \in Accessors /\ ~ret.force /\ ret.fresh)
       => (/\ ret.how = "cache"
           /\ ret.requests = 0
           /\ ret.value = ret.pre.data
           /\ storage[ret.key] = ret.pre)
  /\ \A i \in Slots : (calls[i] # Idle /\ ~calls[i].force) => ~calls[i].fresh

C3_Witness ==
  /\ ret.op = "fetchNews" /\ ~ret.force /\ ret.how = "cache"
  /\ now > ret.pre.timestamp
  /\ started = 2

\* C4: when the remote call fails and storage holds no entry for the key, the
\* call rejects with the original error; for an error field in the payload
\* the message of the rejection is that field, unchanged.
C4_ErrorPropagates ==
  (ret.op \in Accessors /\ RemoteFailed /\ ret.found = Null)
    => /\ ret.how = "error"
       /\ ret.message =
            (IF ret.resp.rejected THEN "Failed to fetch"
             ELSE IF ~ret.resp.ok THEN "HTTP error! status: 500"
             ELSE ret.resp.body.error)

C4_Witness ==
  /\ ret.op = "fetchNews" /\ ret.how = "error" /\ ret.found = Null
  /\ ret.resp.ok /\ ret.message = "No data found"

\* C5: every cache entry holds a payload of a 2xx response without an error
\* field; a response with an error field or a non-2xx status is never written
\* to the cache and ends the call as a transport failure does: from the
\* fallback or by rejecting, with the entry as it was (or dropped as expired).
GoodPayload(key, d) ==
  /\ d.error = ""
  /\ d.v \in 0..now
  /\ \/ (key = MoversKey /\ d.url = MoversUrl)
     \/ \E sym \in Symbols : key = StockKey(sym) /\ d.url = StockUrl(sym)
     \/ \E sym \in NewsArgs : key = NewsKey(sym) /\ d.url = NewsUrl(sym)
C5_OnlyGoodPayloadsCached ==
  /\ \A k \in CacheKeys :
        storage[k] # Null => (storage[k].kind = "json" /\ GoodPayload(k, storage[k].data))
  /\ (ret.op \in Accessors /\ RemoteFailed)
        => (/\ ret.how \in {"fallback", "error"}
            /\ storage[ret.key] \in {ret.found, Null})

C5_Witness ==
  /\ ret.how = "fallback"
  /\ ret.resp.ok /\ ret.resp.body.error # ""
  /\ storage[ret.key] = ret.found /\ ret.found # Null

\* C6: when the remote call succeeds the entry of the key is replaced as a
\* whole by {data: payload, timestamp: now} and the call returns that payload;
\* a later non-forced call within the TTL returns the payload that was stored
\* (the one the backend produced at the entry's timestamp).
C6_SuccessOverwrites ==
  /\ (ret.op \in Accessors /\ ret.how = "network")
       => (/\ ret.value = ret.resp.body
           /\ storage[ret.key] =
                [kind |-> "json", data |-> ret.resp.body, timestamp |-> now])
  /\ (ret.op \in Accessors /\ ret.how = "cache")
       => (ret.value = ret.pre.data /\ ret.value.v = ret.pre.timestamp)

C6_Witness ==
  /\ ret.how = "network"
  /\ ret.found # Null /\ ret.found.timestamp < now
  /\ storage[ret.key].timestamp = now

(***************************************************************************)
(* Watchlist properties, under WatchSpec.                                  *)
(***************************************************************************)
Accepted(reply) == ~reply.rejected /\ reply.ok
NoDuplicates(list) ==
  \A a, b \in 1..Len(list) : list[a] = list[b] => a = b
Elements(list) == {list[k] : k \in 1..Len(list)}

\* C7: the local watchlist changes only in the step in which an accepted
\* response is handled (never while the request is in flight); when the add
\* of a symbol that was absent is accepted the symbol is present afterwards,
\* and when the remove of a symbol that was present is accepted it is absent.
C7_PessimisticToggle ==
  [][/\ (watchlist' # watchlist) => (wret'.op # "none" /\ Accepted(wret'.reply))
     /\ (wret'.op = "toggleWatchlist" /\ Accepted(wret'.reply))
          => (IF wret'.isIn THEN ~Includes(watchlist', wret'.symbol)
                            ELSE Includes(watchlist', wret'.symbol))]_vars

C7_Witness ==
  /\ wret.op = "toggleWatchlist" /\ Accepted(wret.reply) /\ wret.isIn
  /\ Includes(wret.before, wret.symbol)
  /\ ~Includes(watchlist, wret.symbol)

\* C8: when the remote add or remove fails (network error or non-2xx status)
\* the local watchlist is exactly what it was and the failure is surfaced; a
\* symbol that was not in the list before a failed add is not in it after.
C8_FailedToggleLeavesList ==
  (wret.op = "toggleWatchlist" /\ ~Accepted(wret.reply))
    => /\ watchlist = wret.before
       /\ wret.alerted
       /\ (~Includes(wret.before, wret.symbol) => ~IsStockInWatchlist(wret.symbol))

C8_Witness ==
  /\ wret.op = "toggleWatchlist" /\ ~wret.isIn
  /\ ~wret.reply.rejected /\ wret.reply.status = 500
  /\ wstarted = 2 /\ serverList = <<>> /\ ~IsStockInWatchlist(wret.symbol)

\* C9: whenever the list has been loaded and no toggleWatchlist or
\* loadWatchlist call is in flight, the local watchlist holds exactly the
\* symbols of the backend's watchlist.
C9_NoDrift ==
  (loaded /\ \A i \in WSlots : wcalls[i] = WIdle)
    => Elements(watchlist) = Elements(serverList)

\* C10: the local watchlist never contains a symbol twice.
C10_NoDuplicates == NoDuplicates(watchlist)

C10_Witness ==
  /\ wret.op = "toggleWatchlist" /\ ~wret.isIn /\ Accepted(wret.reply)
  /\ Includes(wret.before, wret.symbol)
  /\ watchlist = wret.before

(***************************************************************************)
(* Migration of the legacy watchlist, under MigrateSpec.                   *)
(***************************************************************************)
IsPrefix(a, b) == Len(a) <= Len(b) /\ a = SubSeq(b, 1, Len(a))
MigrationLoads == {i \in WSlots : wcalls[i].op = "loadWatchlist" /\ wcalls[i].cont = "migrate"}
MigrationAdds == {i \in WSlots : wcalls[i].op = "migrateLocalStorageWatchlist"}

C13_LoadNeverRejects ==
  wret.op = "loadWatchlist" =>
    /\ ~wret.threw
    /\ ~Accepted(wret.reply) => (wret.value = <<>> /\ watchlist = wret.before)

C13_Witness ==
  /\ wret.op = "loadWatchlist" /\ ~wret.reply.rejected /\ wret.reply.status = 500
  /\ wret.value = <<>> /\ wret.before # <<>>

C15_NoCrossSymbolNews ==
  /\ (ret.op = "fetchNews" /\ ret.how \in {"cache", "network", "fallback"})
       => (ret.value.url = ret.url /\ ret.value.error = "")
  /\ \A sym \in NewsArgs :
       storage[NewsKey(sym)] # Null => storage[NewsKey(sym)].data.url = NewsUrl(sym)

C15_Witness ==
  /\ ret.op = "fetchNews" /\ ret.how = "network"
  /\ ret.key = "news_AAPL" /\ ret.value.url = NewsUrl("AAPL")
  /\ storage["news_TSLA"] # Null
  /\ storage["news_TSLA"].data.url = NewsUrl("TSLA")

\* two calls of the same category and parameter; null and the empty string
\* both stand for "no symbol"
SameParameter(a, b) ==
  /\ a.category = b.category
  /\ \/ a.parameter = b.parameter
     \/ (a.category = "news" /\ {a.parameter, b.parameter} \subseteq {"", NoSymbol})

\* C16: the cache key is an injective function of (category, parameter): two
\* calls of the same category and parameter build the same key, and two calls
\* that differ in category or in parameter build different keys; a news call
\* without a symbol (null or the empty string) and a news call with a symbol
\* string differ in parameter.  (Under KeySpec.)
C16_KeysInjective ==
  (probe.ka # "" /\ probe.kb # "")
    => (SameParameter(probe.a, probe.b) <=> probe.ka = probe.kb)

\* C17: no step of an accessor removes an entry: a key that holds an entry
\* holds an entry after every step (there is no invalidation among the
\* accessors, so an entry can only give way to a newer one).
C17_ReadsKeepEntries ==
  [][\A k \in CacheKeys : storage[k] # Null => storage'[k] # Null]_vars

(***************************************************************************)
(* Storage failures (FaultSpec) and foreign stored values (CorruptSpec).   *)
(***************************************************************************)
\* the message of the error the remote call of ret failed with
RemoteMessage ==
  IF ret.resp.rejected THEN "Failed to fetch"
  ELSE IF ~ret.resp.ok THEN "HTTP error! status: " \o ToString(ret.resp.status)
  ELSE ret.resp.body.error

\* C18: with localStorage disabled or full no storage error reaches the
\* caller of an accessor: a call rejects only when its remote call failed,
\* and then with the remote error; a read that fails counts as a miss (no
\* call ends from the cache or the fallback on a disabled storage); a write
\* that fails is dropped (the entry stays as it was) and the payload of the
\* successful remote call is returned all the same.
C18_StorageFailuresSwallowed ==
  (ret.op \in Accessors /\ health # "ok") =>
    /\ ret.message # StorageError
    /\ ret.how = "error" => (RemoteFailed /\ ret.message = RemoteMessage)
    /\ health = "disabled" => ret.how \notin {"cache", "fallback"}
    /\ (ret.requests = 1 /\ ~RemoteFailed) =>
         (/\ ret.how = "network"
          /\ ret.value = ret.resp.body
          /\ storage[ret.key] = ret.found)

\* C19: a stored value that is not a well-formed {data, timestamp} entry
\* counts as absent: a non-forced call that finds one issues its request, a
\* call whose remote call fails while the key holds one rejects with the
\* remote error, and a call rejects only with the error of its remote call.
C19_CorruptTreatedAsAbsent ==
  ret.op \in Accessors =>
    /\ (~ret.force /\ ret.pre \in CorruptValues) => ret.requests = 1
    /\ (RemoteFailed /\ ret.found \in CorruptValues) =>
         (ret.how = "error" /\ ret.message = RemoteMessage)
    /\ ret.how = "error" => RemoteFailed

(***************************************************************************)
(* The cache store by itself, under RoundTripSpec.                         *)
(***************************************************************************)
\* C20: getCachedData(k) called less than the TTL of k after the last
\* setCachedData(k, v) returns v.
C20_RoundTrip ==
  (/\ ret.op = "getCachedData"
   /\ lastSet[ret.key].set
   /\ now - lastSet[ret.key].at < CategoryTTL(ret.key))
    => ret.value = lastSet[ret.key].data

C20_Witness ==
  /\ ret.op = "getCachedData" /\ StartsWith(ret.key, "news_")
  /\ lastSet[ret.key].set /\ lastSet[ret.key].at < now
  /\ ret.value = lastSet[ret.key].data /\ Truthy(ret.value)

(***************************************************************************)
(* The duration of an entry, under DurationSpec.                           *)
(***************************************************************************)
\* the durations by category: one minute for stock_ keys, two minutes for
\* marketMovers, five minutes for news_ keys, one minute for any other key
DurationOfCategory(key) ==
  IF SubSeq(key, 1, 6) = "stock_" THEN 60000
  ELSE IF key = "marketMovers" THEN 120000
  ELSE IF SubSeq(key, 1, 5) = "news_" THEN 300000
  ELSE 60000

\* C21: the duration applied to an entry depends on the category of its key
\* alone: getCachedData(k) that finds the entry setCachedData wrote returns
\* its data exactly when the entry is younger than 60000 ms for a stock_ key,
\* 120000 ms for marketMovers, 300000 ms for a news_ key and 60000 ms for
\* any other key, at every call.
C21_DurationByCategory ==
  (ret.op = "getCachedData" /\ ret.pre # Null) =>
    (ret.value = ret.pre.data <=> now - ret.pre.timestamp < DurationOfCategory(ret.key))

C21_Witness ==
  /\ ret.op = "getCachedData" /\ ret.key = "marketMovers"
  /\ ret.pre # Null /\ now - ret.pre.timestamp = 120000
  /\ ret.value = NullData

(***************************************************************************)
(* Requests and entries of the accessors, under Spec.                      *)
(***************************************************************************)
\* C22: per key the timestamps of the entries stored one after the other
\* never decrease, whatever the order in which overlapping calls complete:
\* no entry is stamped later than the clock, an entry that replaces another
\* is not older than it, and an entry written to a key (also to one whose
\* entry was removed in between) is stamped with the time of the write.
C22_TimestampsMonotone ==
  /\ [](\A k \in CacheKeys : storage[k] # Null => storage[k].timestamp <= now)
  /\ [][\A k \in CacheKeys :
          /\ (storage[k] # Null /\ storage'[k] # Null)
               => storage'[k].timestamp >= storage[k].timestamp
          /\ (storage'[k] # Null /\ storage'[k] # storage[k])
               => storage'[k].timestamp >= now]_vars

C22_Witness ==
  /\ ret.op = "fetchStockData" /\ ret.how = "network"
  /\ ret.pre = Null /\ ret.found # Null
  /\ ret.found.timestamp < now
  /\ storage[ret.key].timestamp = now

\* C23: a call issues one request when it is forced (also over a fresh
\* entry) or finds no fresh entry, and none when it returns from the cache;
\* it never issues a second one: every call in flight has issued exactly one
\* request, and a call whose request failed ends with that one request made.
C23_OneRequestPerCall ==
  /\ \A i \in Slots : calls[i] # Idle => calls[i].requests = 1
  /\ ret.op \in Accessors =>
       /\ ret.requests = (IF ret.how = "cache" THEN 0 ELSE 1)
       /\ (ret.force \/ ~ret.fresh) => ret.requests = 1
       /\ RemoteFailed => ret.how \in {"fallback", "error"}

C23_Witness ==
  /\ ret.op = "fetchNews" /\ ret.force /\ ret.fresh
  /\ ret.requests = 1 /\ RemoteFailed /\ ret.how = "fallback"

\* C24: calls are not coalesced: a call that starts either returns an entry
\* it found in storage or issues a request of its own, whatever calls of the
\* same key are in flight; the call records what it found itself, and the
\* calls in flight are left as they were.
C24_NotCoalesced ==
  [][started' = started + 1 =>
       \/ (ret'.how = "cache" /\ ret'.pre # Null /\ ret'.pre = storage[ret'.key])
       \/ \E i \in Slots :
            /\ calls[i] = Idle /\ calls'[i] # Idle
            /\ calls'[i].requests = 1
            /\ calls'[i].pre = storage[calls'[i].key]
            /\ \A j \in Slots \ {i} : calls'[j] = calls[j]]_vars

C24_Witness ==
  /\ calls[1].op = "fetchStockData" /\ calls[2].op = "fetchStockData"
  /\ calls[1].key = calls[2].key
  /\ ~calls[1].force /\ ~calls[2].force
  /\ calls[1].pre = Null /\ calls[2].pre = Null
  /\ storage[calls[1].key] = Null

(***************************************************************************)
(* The analysis, under AnalysisSpec.                                       *)
(***************************************************************************)
\* C25: every fetchPortfolAIAnalysis call issues one request, whatever the
\* storage holds; what it gives depends on the response alone (the body of a
\* good response, else a rejection with the error of the request), and no
\* step of the call changes any entry.
C25_AnalysisAlwaysRemote ==
  /\ [](ret.op = "fetchPortfolAIAnalysis" =>
          /\ ret.requests = 1
          /\ IF RemoteFailed
               THEN ret.how = "error" /\ ret.message = RemoteMessage
               ELSE ret.how = "network" /\ ret.value = ret.resp.body)
  /\ [][(\/ ret'.op = "fetchPortfolAIAnalysis"
         \/ \E i \in Slots : calls[i] = Idle /\ calls'[i].op = "fetchPortfolAIAnalysis")
          => storage' = storage]_vars

C25_Witness ==
  /\ ret.op = "fetchPortfolAIAnalysis" /\ ret.how = "error"
  /\ ret.url = AnalysisUrl("AAPL")
  /\ storage[StockKey("AAPL")] # Null
  /\ WithinTTL(StockKey("AAPL"), storage[StockKey("AAPL")], now)

(***************************************************************************)
(* The stock search, under SearchSpec.                                     *)
(***************************************************************************)
\* C26: a search never cancels a request: the step in which a search starts
\* leaves every call in flight as it was, and a stock request leaves its
\* slot only in the step that handles its own response; a good response is
\* written under the key of its own symbol; and whenever a search's call has
\* returned data, the details shown are that symbol's and that data,
\* whatever the search field holds by then.
C26_LastResponseShown ==
  /\ [][/\ started' = started + 1
            => \A i \in Slots : calls[i] # Idle => calls'[i] = calls[i]
        /\ \A i \in Slots :
             (calls[i].op = "performSearch" /\ calls'[i] # calls[i])
               => (/\ ret'.op = "fetchStockData" /\ ret'.requests = 1
                   /\ ret'.key = calls[i].key)]_vars
  /\ [](ret.op = "fetchStockData" =>
          /\ ret.how = "network" =>
               (/\ ret.value.url = ret.url
                /\ storage[ret.key] =
                     [kind |-> "json", data |-> ret.resp.body, timestamp |-> now])
          /\ ret.how \in {"network", "fallback"} =>
               (ret.key = StockKey(search.shown) /\ search.data = ret.value))

C26_Witness ==
  /\ started = 2
  /\ ToUpperCaseTrim(search.input) = "AAPL"
  /\ ret.op = "fetchStockData" /\ ret.how = "network"
  /\ search.shown = "TSLA"
  /\ storage[StockKey("AAPL")] # Null /\ storage[StockKey("TSLA")] # Null
  /\ \A i \in Slots : calls[i].op # "performSearch"

(***************************************************************************)
(* The legacy list after a migration, under MigrateSpec.                   *)
(***************************************************************************)
\* C27: the legacy key is removed only after a successful migration: when
\* the loop of a migration has ended and an add of it was not accepted
\* (rejected fetch or non-2xx status), the legacy list is still stored.
C27_LegacyKeptOnFailure ==
  (mig.list # <<>> /\ mig.index = 0 /\ mig.failed) => legacy = mig.list

(***************************************************************************)
(* What a fetch leaves alone, under FrameSpec.                             *)
(***************************************************************************)
\* C28: a step of a fetch changes the entry of no key but its own (the key
\* of the call that ended in the step, or of the call that started in it),
\* and no step of a fetch changes the watchlist.
C28_FetchFrame ==
  [][/\ watchlist' = watchlist
     /\ \A k \in CacheKeys :
          storage'[k] # storage[k] =>
            \/ (ret'.op \in Accessors /\ ret'.key = k)
            \/ \E i \in Slots :
                 calls[i] = Idle /\ calls'[i] # Idle /\ calls'[i].key = k]_vars

C28_Witness ==
  /\ ret.op = "fetchNews" /\ ret.how = "network" /\ ret.key = "news_AAPL"
  /\ storage["news_TSLA"] # Null
  /\ storage["news_TSLA"].timestamp < now
  /\ watchlist = <<"TSLA", "AAPL">>

(***************************************************************************)
(* The chat, under ChatSpec.                                               *)
(***************************************************************************)
\* C29: at most one sendMessage call is suspended at any time; isWaiting is
\* true exactly while one is (so it is false again after every request,
\* whether it gave a response, gave none or threw); and a sendMessage call
\* made while isWaiting is true changes nothing.
C29_OneChatRequest ==
  /\ [](/\ Len(chat.sends) <= 1
        /\ chat.isWaiting <=> Len(chat.sends) = 1)
  /\ [][(started' = started + 1 /\ chat.isWaiting) => chat' = chat]_vars

C29_Witness ==
  /\ started = 2
  /\ Len(chat.history) = 3
  /\ chat.history[2] = Message("bot", "Error contacting the assistant.")
  /\ chat.history[3].role = "user"
  /\ chat.isWaiting /\ Len(chat.sends) = 1

====
